---- MODULE Spec2Model ----
(***************************************************************************)
(* gradient-text: Gradient (src/gradient_text/gradient.py), ColorList      *)
(* (src/gradient_text/color_list.py) and the span compression shared with  *)
(* GradientSubstring (src/gradient_text/_gradient_substring.py).           *)
(*                                                                         *)
(* A Gradient is built in four steps, each an action of the model:         *)
(*   GradientInit      lines 105-152  arguments, rich Text state, colours, *)
(*                                    the two assertions                   *)
(*   SubstringIndexes  line 154       numpy array_split of the indexes     *)
(*   SubstringSpans    line 155       one unit span per character          *)
(*   SimplifySpans     line 156       compression, stored in _spans        *)
(* An exception ends the construction in pc = "failed"; err holds the      *)
(* exception and errAt the method that raised it.                          *)
(*                                                                         *)
(* A GradientSubstring is built by GradientSubstringInit (lines 50-92),    *)
(* the steps of calculate_spans_concurrently (the submits of executor.map, *)
(* the three worker threads, the shutdown, the return) and                 *)
(* SubstringSimplifySpans (lines 94-95).  SetText and SetColorSample are   *)
(* the setters of a constructed Gradient.                                  *)
(*                                                                         *)
(* Text is a sequence of one-character strings.  A colour channel is an    *)
(* integer in 0..255, a hex colour the sequence of the seven characters    *)
(* the code formats.  int(r1 + dr * blend) is evaluated in exact integer   *)
(* arithmetic: the double-precision value truncates to the same integer    *)
(* for every segment shorter than 25 characters over the channel values    *)
(* 0, 95, 136, 175 and 255 used here.                                      *)
(***************************************************************************)
EXTENDS Integers, Sequences, FiniteSets, TLC

VARIABLES
    pc,                 \* position in Gradient.__init__ / in the simplify_spans harness
    err,                \* the exception raised, "" when none
    errAt,              \* the method that raised it, "" when none
    colors,             \* the colors argument of __init__
    _text,              \* Text._text: the sanitized text
    _length,            \* Text._length
    hues,               \* Gradient.hues
    _style,             \* Gradient._style
    _colors,            \* Gradient._colors: the RGB tuples of the anchor colours
    substring_indexes,  \* local of __init__ (line 154)
    spans,              \* local of __init__ (line 155): the unit spans
    hex_colors,         \* the hex_color computed for each unit span (line 192)
    _spans,             \* Text._spans
    arg,                \* simplify_spans called on its own: the argument
    ret,                \* ... its result
    ret2,               \* ... the result of compressing the result again
    _color_sample,      \* Gradient._color_sample, "unset" until its setter runs
    self_start_index,   \* GradientSubstring.start_index
    self_color_start,   \* GradientSubstring.color_start, as its RGB tuple
    self_color_end,     \* GradientSubstring.color_end, as its RGB tuple
    self_style,         \* GradientSubstring.style
    end_style,          \* local of GradientSubstring.__init__ (lines 76-89)
    initial_spans,      \* local of GradientSubstring.__init__ (lines 92-93)
    executor,           \* the ThreadPoolExecutor of calculate_spans_concurrently
    fs,                 \* the futures executor.map created, in submission order
    finished,           \* the indexes of the finished tasks, in completion order
    result              \* what calculate_spans_concurrently returned

\* the state of a Gradient and of the simplify_spans calls
gradient_vars ==
    <<colors, hues, _style, _colors, substring_indexes, spans, hex_colors,
      arg, ret, ret2, _color_sample>>

\* the state of a GradientSubstring
substring_vars ==
    <<self_start_index, self_color_start, self_color_end, self_style, end_style,
      initial_spans, executor, fs, finished, result>>

vars == <<pc, err, errAt, colors, _text, _length, hues, _style, _colors,
          substring_indexes, spans, hex_colors, _spans, arg, ret, ret2,
          _color_sample, self_start_index, self_color_start, self_color_end,
          self_style, end_style, initial_spans, executor, fs, finished, result>>

(***************************************************************************)
(* Bounds of the model.                                                    *)
(***************************************************************************)
\* longest sanitized text
MaxLen == 11
\* longest explicit colour list
MaxColors == 4
\* largest hues argument
MaxHues == 5
\* longest span list handed to simplify_spans on its own
MaxSpans == 4

(***************************************************************************)
(* Program constants.                                                      *)
(***************************************************************************)
\* color_list.py:36 and :44, the ten palette entries
PaletteSize == 10
\* gradient.py:128
RainbowHues == 10

(***************************************************************************)
(* Python helpers.                                                         *)
(***************************************************************************)
Min(a, b) == IF a < b THEN a ELSE b

Max(a, b) == IF a > b THEN a ELSE b

\* seq[0:stop] for any integer stop
Slice0(seq, stop) ==
    IF stop >= 0 THEN SubSeq(seq, 1, Min(stop, Len(seq)))
    ELSE SubSeq(seq, 1, Max(Len(seq) + stop, 0))

\* ch * n
Repeat(ch, n) == [i \in 1..n |-> ch]

\* int(num / den) for den > 0: truncation towards zero
IntTrunc(num, den) ==
    IF num >= 0 THEN num \div den ELSE 0 - ((0 - num) \div den)

(***************************************************************************)
(* rich.control.strip_control_codes removes bell, backspace, vertical tab, *)
(* form feed and carriage return; the texts drawn hold the last two.       *)
(***************************************************************************)
ControlCodes == {"\r", "\f"}

strip_control_codes(text) == SelectSeq(text, LAMBDA c : c \notin ControlCodes)

(***************************************************************************)
(* gradient_text.color.Color: a parsed colour exposes rgb_tuple; a token   *)
(* it cannot resolve raises ColorParseError.                               *)
(***************************************************************************)
NamedRGB ==
    [ magenta   |-> <<255, 0, 255>>,
      violet    |-> <<175, 0, 255>>,
      purple    |-> <<95, 0, 255>>,
      blue      |-> <<0, 0, 255>>,
      lightblue |-> <<0, 136, 255>>,
      cyan      |-> <<0, 255, 255>>,
      lime      |-> <<0, 255, 0>>,
      yellow    |-> <<255, 255, 0>>,
      orange    |-> <<255, 136, 0>>,
      red       |-> <<255, 0, 0>> ]

ColorParses(token) == token \in DOMAIN NamedRGB

Color(token) == NamedRGB[token]

(***************************************************************************)
(* ColorList: the palette rotated to start_index (randint(0, 9)), walked   *)
(* backwards when invert.                                                  *)
(***************************************************************************)
ColorList_colors ==
    << "magenta", "violet", "purple", "blue", "lightblue",
       "cyan", "lime", "yellow", "orange", "red" >>

ColorList(invert, start_index) ==
    LET step == IF invert THEN 0 - 1 ELSE 1
        current(index) ==
            LET c  == start_index + (index * step)
                c1 == IF c > PaletteSize - 1 THEN c - PaletteSize ELSE c
            IN  IF c1 < 0 THEN c1 + PaletteSize ELSE c1
    IN  [k \in 1..PaletteSize |-> Color(ColorList_colors[current(k - 1) + 1])]

(***************************************************************************)
(* rich.style.Style and rich.color.Color as far as spans need them: the    *)
(* foreground colour, the attributes that are on and those that are set.   *)
(***************************************************************************)
NoColor == [type |-> "none", number |-> 0 - 1, triplet |-> <<>>]

NullStyle == [color |-> NoColor, attributes |-> {}, set_attributes |-> {}]

StyleAttributes == {"bold", "italic"}

HexDigits ==
    << "0", "1", "2", "3", "4", "5", "6", "7",
       "8", "9", "A", "B", "C", "D", "E", "F" >>

LowerHexDigits ==
    << "0", "1", "2", "3", "4", "5", "6", "7",
       "8", "9", "a", "b", "c", "d", "e", "f" >>

\* f"{v:02X}" for 0 <= v <= 255
Hex2(v) == << HexDigits[(v \div 16) + 1], HexDigits[(v % 16) + 1] >>

\* str.lower on one hex digit
Lower(c) ==
    IF \E k \in 11..16 : HexDigits[k] = c
    THEN LowerHexDigits[CHOOSE k \in 11..16 : HexDigits[k] = c]
    ELSE c

\* int(two_digits, 16)
HexByte(c1, c2) ==
    LET val(c) == (CHOOSE k \in 1..16 : LowerHexDigits[k] = c) - 1
    IN  (16 * val(c1)) + val(c2)

\* rich Color.parse of "#RRGGBB": lower-cased, then three hex bytes
RichColorParse(hex) ==
    LET low == [k \in 1..Len(hex) |-> Lower(hex[k])]
    IN  [ type    |-> "truecolor",
          number  |-> 0 - 1,
          triplet |-> << HexByte(low[2], low[3]),
                         HexByte(low[4], low[5]),
                         HexByte(low[6], low[7]) >> ]

\* Style(color=hex_color)
StyleOfColor(hex) ==
    [color |-> RichColorParse(hex), attributes |-> {}, set_attributes |-> {}]

\* Style.parse of a definition given as its words
StyleParse(words) ==
    LET RECURSIVE fold(_, _)
        fold(k, st) ==
            IF k > Len(words) THEN st
            ELSE IF words[k] \in StyleAttributes
                 THEN fold(k + 1, [st EXCEPT !.attributes = @ \cup {words[k]},
                                             !.set_attributes = @ \cup {words[k]}])
                 ELSE fold(k + 1, [st EXCEPT !.color =
                          [type |-> "standard", number |-> 2, triplet |-> <<>>]])
    IN  IF words = <<"none">> THEN NullStyle ELSE fold(1, NullStyle)

\* Style.__add__: self + style, the right operand wins where it sets something
StyleAdd(self, style) ==
    IF style = NullStyle THEN self
    ELSE IF self = NullStyle THEN style
    ELSE [ color          |-> IF style.color # NoColor THEN style.color ELSE self.color,
           attributes     |-> (self.attributes \ style.set_attributes)
                                  \cup (style.attributes \cap style.set_attributes),
           set_attributes |-> self.set_attributes \cup style.set_attributes ]

Span(start, end, style) == [start |-> start, end |-> end, style |-> style]

(***************************************************************************)
(* numpy.array_split(arange(n), sections) for sections > 0: the first      *)
(* n % sections chunks hold n // sections + 1 indexes, the others          *)
(* n // sections; the chunks are cut at the running sums of the sizes.     *)
(***************************************************************************)
section_sizes(n, sections) ==
    LET Neach_section == n \div sections
        extras        == n % sections
    IN  <<0>> \o Repeat(Neach_section + 1, extras)
              \o Repeat(Neach_section, sections - extras)

RECURSIVE cumsum(_)
cumsum(seq) ==
    IF seq = <<>> THEN <<>>
    ELSE LET front == cumsum(SubSeq(seq, 1, Len(seq) - 1))
         IN  Append(front, (IF front = <<>> THEN 0 ELSE front[Len(front)]) + seq[Len(seq)])

\* array_split cut as n // sections everywhere, the rest in the last chunk
array_split_rest_last(n, sections) ==
    LET each == n \div sections
    IN  [i \in 1..sections |->
            [j \in 1..(IF i = sections THEN n - (each * (sections - 1)) ELSE each) |->
                (each * (i - 1)) + j - 1]]

array_split(n, sections) ==
    LET div_points == cumsum(section_sizes(n, sections))
    IN  [i \in 1..sections |->
            [j \in 1..(div_points[i + 1] - div_points[i]) |-> div_points[i] + j - 1]]

(***************************************************************************)
(* Gradient._substring_spans, lines 187-192: the colour of the character   *)
(* at offset index of a chunk of substring_length characters.              *)
(***************************************************************************)
\* int(c1 + d * blend) with blend = index / substring_length
Channel(c1, d, index, substring_length) ==
    IntTrunc((c1 * substring_length) + (d * index), substring_length)

hex_color(color1, color2, index, substring_length) ==
    LET red   == Channel(color1[1], color2[1] - color1[1], index, substring_length)
        green == Channel(color1[2], color2[2] - color1[2], index, substring_length)
        blue  == Channel(color1[3], color2[3] - color1[3], index, substring_length)
    IN  <<"#">> \o Hex2(red) \o Hex2(green) \o Hex2(blue)

\* Style(color=hex_color) + self.style
span_style(hex, style) == StyleAdd(StyleOfColor(hex), style)

\* lines 187-197 for one chunk
ChunkSpans(substring_index, color1, color2, style) ==
    LET substring_length == Len(substring_index)
    IN  [k \in 1..substring_length |->
            Span(substring_index[k], substring_index[k] + 1,
                 span_style(hex_color(color1, color2, k - 1, substring_length), style))]

ChunkHex(substring_index, color1, color2) ==
    LET substring_length == Len(substring_index)
    IN  [k \in 1..substring_length |->
            hex_color(color1, color2, k - 1, substring_length)]

(***************************************************************************)
(* Gradient._substring_spans, lines 172-198.  m is main_index + 1; pair    *)
(* holds color1 and color2 as the last chunk left them.  self._colors[i]   *)
(* with i >= len(self._colors) raises IndexError: ok is then FALSE and the *)
(* spans are those appended before.                                        *)
(***************************************************************************)
RECURSIVE SpansLoop(_, _, _, _, _, _, _)
SpansLoop(indexes, m, anchors, h, style, pair, acc) ==
    IF m > Len(indexes) THEN [ok |-> TRUE, spans |-> acc.spans, hex |-> acc.hex]
    ELSE IF (m - 1 < h) /\ (m + 1 > Len(anchors))
         THEN [ok |-> FALSE, spans |-> acc.spans, hex |-> acc.hex]
    ELSE LET now == IF m - 1 < h THEN <<anchors[m], anchors[m + 1]>> ELSE pair
         IN  SpansLoop(indexes, m + 1, anchors, h, style, now,
                 [spans |-> acc.spans \o ChunkSpans(indexes[m], now[1], now[2], style),
                  hex   |-> acc.hex \o ChunkHex(indexes[m], now[1], now[2])])

substring_spans(indexes, anchors, h, style) ==
    SpansLoop(indexes, 1, anchors, h, style, <<>>, [spans |-> <<>>, hex |-> <<>>])

(***************************************************************************)
(* Gradient.simplify_spans, lines 209-221, for a non-empty list (an empty  *)
(* one leaves last_span unbound at line 220).                              *)
(***************************************************************************)
RECURSIVE SimplifyLoop(_, _, _, _)
SimplifyLoop(list, index, last_span, simplified_spans) ==
    IF index > Len(list) THEN Append(simplified_spans, last_span)
    ELSE IF list[index].style = last_span.style
         THEN SimplifyLoop(list, index + 1,
                  Span(last_span.start, list[index].end, list[index].style),
                  simplified_spans)
         ELSE SimplifyLoop(list, index + 1, list[index],
                  Append(simplified_spans, last_span))

\* a merge that restarts at span.start instead of last_span.start
RECURSIVE RestartLoop(_, _, _, _)
RestartLoop(list, index, last_span, simplified_spans) ==
    IF index > Len(list) THEN Append(simplified_spans, last_span)
    ELSE IF list[index].style = last_span.style
         THEN RestartLoop(list, index + 1,
                  Span(list[index].start, list[index].end, list[index].style),
                  simplified_spans)
         ELSE RestartLoop(list, index + 1, list[index],
                  Append(simplified_spans, last_span))

simplify_spans_restart(list) == RestartLoop(list, 2, list[1], <<>>)

\* span == last_span compared in place of span.style == last_span.style
RECURSIVE WholeSpanLoop(_, _, _, _)
WholeSpanLoop(list, index, last_span, simplified_spans) ==
    IF index > Len(list) THEN Append(simplified_spans, last_span)
    ELSE IF list[index] = last_span
         THEN WholeSpanLoop(list, index + 1,
                  Span(last_span.start, list[index].end, list[index].style),
                  simplified_spans)
         ELSE WholeSpanLoop(list, index + 1, list[index],
                  Append(simplified_spans, last_span))

simplify_spans_whole_span(list) == WholeSpanLoop(list, 2, list[1], <<>>)

simplify_spans(list) == SimplifyLoop(list, 2, list[1], <<>>)

(***************************************************************************)
(* GradientSubstring.simplify_spans, lines 231-243: the same fold.         *)
(***************************************************************************)
RECURSIVE SubstringSimplifyLoop(_, _, _, _)
SubstringSimplifyLoop(list, index, last_span, simplified_spans) ==
    IF index > Len(list) THEN Append(simplified_spans, last_span)
    ELSE IF list[index].style = last_span.style
         THEN SubstringSimplifyLoop(list, index + 1,
                  Span(last_span.start, list[index].end, list[index].style),
                  simplified_spans)
         ELSE SubstringSimplifyLoop(list, index + 1, list[index],
                  Append(simplified_spans, last_span))

\* a merged span is closed after one merge: runs are merged in pairs
RECURSIVE PairsLoop(_, _, _, _, _)
PairsLoop(list, index, last_span, merged, simplified_spans) ==
    IF index > Len(list) THEN Append(simplified_spans, last_span)
    ELSE IF list[index].style = last_span.style /\ ~merged
         THEN PairsLoop(list, index + 1,
                  Span(last_span.start, list[index].end, list[index].style),
                  TRUE, simplified_spans)
         ELSE PairsLoop(list, index + 1, list[index], FALSE,
                  Append(simplified_spans, last_span))

GradientSubstring_simplify_spans_pairs(list) ==
    PairsLoop(list, 2, list[1], FALSE, <<>>)

GradientSubstring_simplify_spans(list) ==
    SubstringSimplifyLoop(list, 2, list[1], <<>>)

(***************************************************************************)
(* The arguments the model draws.                                          *)
(***************************************************************************)
\* text: printable characters, with or without a leading carriage return
Texts ==
    {Repeat("a", n) : n \in 0..MaxLen}
        \cup {<<"\r">> \o Repeat("a", n) : n \in 0..MaxLen}

\* colour tokens: three the Color class resolves, one it does not
ColorTokens == {"red", "lime", "blue", "zzz"}

\* colors: an explicit list
ColorLists == UNION {[1..n -> ColorTokens] : n \in 0..MaxColors}

\* colors=None
None == <<"None">>

\* <<rainbow, hues>>; hues is overwritten when rainbow is set
HueArgs == {<<FALSE, h>> : h \in (0 - 1)..MaxHues} \cup {<<TRUE, 3>>}

\* style: a style definition, as its words
StyleInputs == {<<"none">>, <<"bold">>, <<"bold", "green">>}

(***************************************************************************)
(* concurrent.futures.ThreadPoolExecutor as calculate_spans_concurrently   *)
(* uses it: the queue of submitted indexes, the worker threads started so  *)
(* far, the count of the semaphore of idle workers, the shutdown flag.     *)
(***************************************************************************)
NewExecutor ==
    [work_queue |-> <<>>, threads |-> <<>>, idle_semaphore |-> 0, shutdown |-> FALSE]

\* the attributes no constructor has set yet
NoObject ==
    /\ _color_sample = "unset"
    /\ self_start_index = 0
    /\ self_color_start = <<>>
    /\ self_color_end = <<>>
    /\ self_style = NullStyle
    /\ end_style = NullStyle
    /\ initial_spans = <<>>
    /\ executor = NewExecutor
    /\ fs = <<>>
    /\ finished = <<>>
    /\ result = <<>>

(***************************************************************************)
(* Init: no Gradient has been constructed yet.                             *)
(***************************************************************************)
Init ==
    /\ pc = "idle"
    /\ err = ""
    /\ errAt = ""
    /\ colors = <<>>
    /\ _text = <<>>
    /\ _length = 0
    /\ hues = 0
    /\ _style = NullStyle
    /\ _colors = <<>>
    /\ substring_indexes = <<>>
    /\ spans = <<>>
    /\ hex_colors = <<>>
    /\ _spans = <<>>
    /\ arg = <<>>
    /\ ret = <<>>
    /\ ret2 = <<>>
    /\ NoObject

(***************************************************************************)
(* Gradient.__init__, lines 132-147: the anchor colours.  An explicit list *)
(* is parsed token by token and stops at the first ColorParseError; None   *)
(* takes ColorList(invert).color_list[0:hues]; an empty list is rejected.  *)
(***************************************************************************)
RECURSIVE ParseColors(_, _, _)
ParseColors(list, k, parsed) ==
    IF k > Len(list) THEN [err |-> "", parsed |-> parsed]
    ELSE IF ColorParses(list[k])
         THEN ParseColors(list, k + 1, Append(parsed, Color(list[k])))
         ELSE [err |-> "ColorParseError", parsed |-> parsed]

AnchorColors(colors_arg, invert, start_index, h) ==
    IF colors_arg = None
    THEN [err |-> "", parsed |-> Slice0(ColorList(invert, start_index), h)]
    ELSE IF colors_arg # <<>>
         THEN ParseColors(colors_arg, 1, <<>>)
         ELSE [err |-> "ValueError: Colors must be a list of colors.", parsed |-> <<>>]

\* lines 149-152
Assertions(ncolors, length) ==
    IF ~(ncolors > 1)
    THEN "AssertionError: Gradient must have at least two colors."
    ELSE IF ~(ncolors < length)
         THEN "AssertionError: Gradient must have fewer colors than characters."
         ELSE ""

(***************************************************************************)
(* Gradient.__init__, lines 105-152, for text given as a str.  rich's      *)
(* Text.__init__ stores the sanitized text, its length and an empty span   *)
(* list; it does not go through the Gradient.text setter.  "#" stands for  *)
(* the full block a colour sample is made of.                              *)
(***************************************************************************)
GradientInit(text, colors_arg, rainbow, invert, start_index, hues_arg, color_sample, style) ==
    /\ pc = "idle"
    /\ \E sanitized_text \in {strip_control_codes(text)},
          h \in {IF rainbow THEN RainbowHues ELSE hues_arg} :
       \E anchors \in {AnchorColors(colors_arg, invert, start_index, h)} :
       \E failure \in {IF anchors.err # "" THEN anchors.err
                       ELSE Assertions(Len(anchors.parsed), Len(sanitized_text))} :
           /\ colors' = colors_arg
           /\ _text' = IF color_sample THEN Repeat("#", Len(sanitized_text))
                       ELSE sanitized_text
           /\ _length' = Len(sanitized_text)
           /\ _spans' = <<>>
           /\ hues' = h
           /\ _style' = StyleParse(style)
           /\ _colors' = anchors.parsed
           /\ err' = failure
           /\ errAt' = IF failure = "" THEN "" ELSE "__init__"
           /\ pc' = IF failure = "" THEN "validated" ELSE "failed"
    /\ UNCHANGED <<substring_indexes, spans, hex_colors, arg, ret, ret2>>
    /\ UNCHANGED <<_color_sample, substring_vars>>

\* colors given as a list
GradientInitColors ==
    /\ pc = "idle"
    /\ \E text \in Texts, list \in ColorLists, rh \in HueArgs,
          color_sample \in BOOLEAN, style \in StyleInputs :
        GradientInit(text, list, rh[1], FALSE, 0, rh[2], color_sample, style)

\* colors=None: the palette, from the start_index ColorList draws
GradientInitPalette ==
    /\ pc = "idle"
    /\ \E text \in Texts, invert \in BOOLEAN, start_index \in 0..(PaletteSize - 1),
          rh \in HueArgs, color_sample \in BOOLEAN, style \in StyleInputs :
        GradientInit(text, None, rh[1], invert, start_index, rh[2], color_sample, style)

(***************************************************************************)
(* Gradient.__init__, lines 105-111, for text given as a rich Text: text   *)
(* is rebound to text.plain, a str, and text.spans then raises.            *)
(***************************************************************************)
GradientInitText ==
    /\ pc = "idle"
    /\ \E list \in ColorLists \cup {None} : colors' = list
    /\ pc' = "failed"
    /\ err' = "AttributeError: 'str' object has no attribute 'spans'"
    /\ errAt' = "__init__"
    /\ UNCHANGED <<_text, _length, hues, _style, _colors, substring_indexes,
                   spans, hex_colors, _spans, arg, ret, ret2>>
    /\ UNCHANGED <<_color_sample, substring_vars>>

(***************************************************************************)
(* Gradient._substring_indexes, lines 158-165, called at line 154.         *)
(***************************************************************************)
substring_indexes_of(length, h) == array_split(length, h - 1)

SubstringIndexes ==
    /\ pc = "validated"
    /\ LET gradients == hues - 1
       IN  IF gradients <= 0
           THEN /\ pc' = "failed"
                /\ err' = "ValueError: number sections must be larger than 0."
                /\ errAt' = "_substring_indexes"
                /\ UNCHANGED substring_indexes
           ELSE /\ pc' = "partitioned"
                /\ substring_indexes' = substring_indexes_of(_length, hues)
                /\ UNCHANGED <<err, errAt>>
    /\ UNCHANGED <<colors, _text, _length, hues, _style, _colors, spans,
                   hex_colors, _spans, arg, ret, ret2>>
    /\ UNCHANGED <<_color_sample, substring_vars>>

(***************************************************************************)
(* Gradient._substring_spans, lines 167-198, called at line 155.           *)
(***************************************************************************)
SubstringSpans ==
    /\ pc = "partitioned"
    /\ \E r \in {substring_spans(substring_indexes, _colors, hues, _style)} :
           /\ spans' = r.spans
           /\ hex_colors' = r.hex
           /\ pc' = IF r.ok THEN "synthesized" ELSE "failed"
           /\ err' = IF r.ok THEN "" ELSE "IndexError: list index out of range"
           /\ errAt' = IF r.ok THEN "" ELSE "_substring_spans"
    /\ UNCHANGED <<colors, _text, _length, hues, _style, _colors,
                   substring_indexes, _spans, arg, ret, ret2>>
    /\ UNCHANGED <<_color_sample, substring_vars>>

(***************************************************************************)
(* Gradient.__init__, line 156: self._spans = self.simplify_spans(spans).  *)
(***************************************************************************)
SimplifySpans ==
    /\ pc = "synthesized"
    /\ _spans' = simplify_spans(spans)
    /\ pc' = "done"
    /\ UNCHANGED <<err, errAt, colors, _text, _length, hues, _style, _colors,
                   substring_indexes, spans, hex_colors, arg, ret, ret2>>
    /\ UNCHANGED <<_color_sample, substring_vars>>

Next ==
    \/ GradientInitColors
    \/ GradientInitPalette
    \/ GradientInitText
    \/ SubstringIndexes
    \/ SubstringSpans
    \/ SimplifySpans

Spec == Init /\ [][Next]_vars

(***************************************************************************)
(* simplify_spans on its own: the argument is any ordered, non-empty list  *)
(* of spans, with or without gaps between them.                            *)
(***************************************************************************)
ArgStyles ==
    { span_style(hex_color(<<255, 0, 0>>, <<0, 0, 255>>, 0, 1), NullStyle),
      span_style(hex_color(<<0, 0, 255>>, <<255, 0, 0>>, 0, 1), StyleParse(<<"bold">>)) }

\* one span of a list: the gap before it, its width, its style
Shapes == [gap : 0..1, width : 1..2, style : ArgStyles]

RECURSIVE Layout(_, _, _)
Layout(shapes, k, at) ==
    IF k > Len(shapes) THEN <<>>
    ELSE <<Span(at + shapes[k].gap, at + shapes[k].gap + shapes[k].width, shapes[k].style)>>
             \o Layout(shapes, k + 1, at + shapes[k].gap + shapes[k].width)

SpanLists == {Layout(sh, 1, 0) : sh \in UNION {[1..n -> Shapes] : n \in 1..MaxSpans}}

InitSimplify ==
    /\ pc = "called"
    /\ arg \in SpanLists
    /\ err = ""
    /\ errAt = ""
    /\ colors = <<>>
    /\ _text = <<>>
    /\ _length = 0
    /\ hues = 0
    /\ _style = NullStyle
    /\ _colors = <<>>
    /\ substring_indexes = <<>>
    /\ spans = <<>>
    /\ hex_colors = <<>>
    /\ _spans = <<>>
    /\ ret = <<>>
    /\ ret2 = <<>>
    /\ NoObject

Unused ==
    <<err, errAt, colors, _text, _length, hues, _style, _colors, substring_indexes,
      spans, hex_colors, _spans, _color_sample, substring_vars>>

\* Gradient.simplify_spans(arg)
Simplify ==
    /\ pc = "called"
    /\ ret' = simplify_spans(arg)
    /\ pc' = "simplified"
    /\ UNCHANGED <<arg, ret2, Unused>>

\* Gradient.simplify_spans(ret)
SimplifyAgain ==
    /\ pc = "simplified"
    /\ ret2' = simplify_spans(ret)
    /\ pc' = "simplified twice"
    /\ UNCHANGED <<arg, ret, Unused>>

\* GradientSubstring.simplify_spans(arg)
SubstringSimplify ==
    /\ pc = "called"
    /\ ret' = GradientSubstring_simplify_spans(arg)
    /\ pc' = "substring simplified"
    /\ UNCHANGED <<arg, ret2, Unused>>

\* GradientSubstring.simplify_spans(ret)
SubstringSimplifyAgain ==
    /\ pc = "substring simplified"
    /\ ret2' = GradientSubstring_simplify_spans(ret)
    /\ pc' = "simplified twice"
    /\ UNCHANGED <<arg, ret, Unused>>

NextSimplify ==
    \/ Simplify
    \/ SimplifyAgain
    \/ SubstringSimplify
    \/ SubstringSimplifyAgain

SpecSimplify == InitSimplify /\ [][NextSimplify]_vars

\* a Gradient is constructed, or simplify_spans is called on its own
InitAll == Init \/ InitSimplify

NextAll == Next \/ NextSimplify

SpecAll == InitAll /\ [][NextAll]_vars

(***************************************************************************)
(* GradientSubstring (src/gradient_text/_gradient_substring.py).  The      *)
(* arguments the model draws: the text, the index origin, the two colours  *)
(* and the style ("" is the empty sequence of words).                      *)
(***************************************************************************)
\* longest text of a GradientSubstring: the number of tasks of one pool
MaxSubstringLen == 4

\* ThreadPoolExecutor(max_workers=3), line 188
MaxWorkers == 3

SubstringTexts ==
    {Repeat("a", n) : n \in 0..MaxSubstringLen}
        \cup {<<"\r">> \o Repeat("a", n) : n \in 0..MaxSubstringLen}

StartIndexes == {0, 3}

\* color_start
SubstringStartColors == {"red", "zzz"}

\* color_end
SubstringEndColors == {"red", "blue", "zzz"}

SubstringStyles == {<<>>, <<"none">>, <<"bold">>, <<"bold", "green">>}

\* gradient_text.color.Color.hex
ColorHex(rgb) == <<"#">> \o Hex2(rgb[1]) \o Hex2(rgb[2]) \o Hex2(rgb[3])

\* Style.without_color
without_color(st) == IF st = NullStyle THEN st ELSE [st EXCEPT !.color = NoColor]

\* GradientSubstring.parse_style of a str, lines 219-222
parse_style(words) == without_color(StyleParse(words))

\* lines 76-89: Style.parse(f"{self.style} {self.color_end.hex}") for a style
\* that is set and not "none", Style(color=self.color_end.hex) for no style
EndStyle(words, parsed, color_end) ==
    IF words # <<>>
    THEN IF words = <<"none">> THEN NullStyle
         ELSE [ color          |-> RichColorParse(ColorHex(color_end)),
                attributes     |-> parsed.attributes,
                set_attributes |-> parsed.set_attributes ]
    ELSE StyleOfColor(ColorHex(color_end))

(***************************************************************************)
(* GradientSubstring.__init__, lines 50-92: the text, the index origin,    *)
(* the colours, the style and the first entry of initial_spans.  When a    *)
(* colour does not parse (lines 72-73), Text.__init__ (lines 58-66) has    *)
(* already stored the style argument as given.                             *)
(***************************************************************************)
GradientSubstringInit ==
    /\ pc = "idle"
    /\ \E text \in SubstringTexts, start_index \in StartIndexes,
          color_start \in SubstringStartColors, color_end \in SubstringEndColors,
          style \in SubstringStyles :
       \E sanitized_text \in {strip_control_codes(text)} :
           /\ _text' = sanitized_text
           /\ _length' = Len(sanitized_text)
           /\ _spans' = <<>>
           /\ self_start_index' = start_index
           /\ self_color_start' =
                  IF ColorParses(color_start) THEN Color(color_start) ELSE <<>>
           /\ self_color_end' =
                  IF ColorParses(color_start) /\ ColorParses(color_end)
                  THEN Color(color_end) ELSE <<>>
           /\ IF ColorParses(color_start) /\ ColorParses(color_end)
              THEN /\ self_style' =
                          IF style = <<>> \/ style = <<"none">> THEN NullStyle
                          ELSE parse_style(style)
                   /\ end_style' = EndStyle(style, self_style', Color(color_end))
                   /\ initial_spans' = <<Span(0, Len(sanitized_text) - 1, end_style')>>
                   /\ pc' = "map"
                   /\ UNCHANGED <<err, errAt>>
              ELSE /\ self_style' = StyleParse(style)
                   /\ pc' = "failed"
                   /\ err' = "ColorParseError"
                   /\ errAt' = "__init__"
                   /\ UNCHANGED <<end_style, initial_spans>>
    /\ UNCHANGED <<gradient_vars, executor, fs, finished, result>>

(***************************************************************************)
(* GradientSubstring._calculate_span, lines 192-209.                       *)
(***************************************************************************)
_calculate_span(index) ==
    LET span_start  == self_start_index + index
        span_color  == hex_color(self_color_start, self_color_end, index, _length)
        color_style == StyleOfColor(span_color)
    IN  Span(span_start, span_start + 1, StyleAdd(self_style, color_style))

(***************************************************************************)
(* calculate_spans_concurrently, lines 188-190, step by step as            *)
(* concurrent.futures runs it.                                             *)
(*   main thread   executor.map calls submit for each index in order;      *)
(*                 submit creates the future and puts the work item on     *)
(*                 the queue (Submit), then calls _adjust_thread_count     *)
(*                 (AdjustThreadCount), which takes an idle permit or,     *)
(*                 finding none, goes on to start a worker while fewer     *)
(*                 than max_workers exist (StartThread); workers run       *)
(*                 between the two.                                        *)
(*                 Leaving the with block calls shutdown (Shutdown): the   *)
(*                 flag is set, None is put on the queue, and the workers  *)
(*                 are joined before list(result) reads the futures in     *)
(*                 submission order (ReturnSpans).                         *)
(*   worker        takes the oldest entry of the queue (WorkerGet), marks  *)
(*                 the future RUNNING (WorkerSetRunning), runs             *)
(*                 _calculate_span and stores the span (WorkerRun),        *)
(*                 releases an idle permit (WorkerRelease); on None it     *)
(*                 puts None back for the others and ends (WorkerExit).    *)
(***************************************************************************)
\* the None that shutdown puts on the work queue, among the indexes 0, 1, ...
WakeUp == 0 - 1

\* submit, first half: f = Future(); self._work_queue.put(w)
Submit ==
    /\ pc = "map"
    /\ Len(fs) < _length
    /\ fs' = Append(fs, [state |-> "PENDING", result |-> <<>>])
    /\ executor' = [executor EXCEPT !.work_queue = Append(@, Len(fs))]
    /\ pc' = "adjust"
    /\ UNCHANGED <<err, errAt, _text, _length, _spans, gradient_vars,
                   self_start_index, self_color_start, self_color_end, self_style,
                   end_style, initial_spans, finished, result>>

\* submit, second half: _adjust_thread_count tries the idle permit,
\* self._idle_semaphore.acquire(timeout=0), and returns when it got one
AdjustThreadCount ==
    /\ pc = "adjust"
    /\ IF executor.idle_semaphore > 0
       THEN /\ executor' = [executor EXCEPT !.idle_semaphore = @ - 1]
            /\ pc' = "map"
       ELSE /\ pc' = "start"
            /\ UNCHANGED executor
    /\ UNCHANGED <<err, errAt, _text, _length, _spans, gradient_vars,
                   self_start_index, self_color_start, self_color_end, self_style,
                   end_style, initial_spans, fs, finished, result>>

\* _adjust_thread_count after no permit was found: a worker thread is started
\* while fewer than max_workers exist, whatever the permits are by now
StartThread ==
    /\ pc = "start"
    /\ executor' = IF Len(executor.threads) < MaxWorkers
                   THEN [executor EXCEPT
                             !.threads = Append(@, [at |-> "get", item |-> WakeUp])]
                   ELSE executor
    /\ pc' = "map"
    /\ UNCHANGED <<err, errAt, _text, _length, _spans, gradient_vars,
                   self_start_index, self_color_start, self_color_end, self_style,
                   end_style, initial_spans, fs, finished, result>>

\* work_item = work_queue.get(block=True)
WorkerGet(w) ==
    /\ w \in 1..Len(executor.threads)
    /\ executor.threads[w].at = "get"
    /\ executor.work_queue # <<>>
    /\ executor' = [executor EXCEPT
                       !.work_queue = Tail(@),
                       !.threads[w] = [at |-> "got", item |-> Head(executor.work_queue)]]
    /\ UNCHANGED <<pc, err, errAt, _text, _length, _spans, gradient_vars,
                   self_start_index, self_color_start, self_color_end, self_style,
                   end_style, initial_spans, fs, finished, result>>

\* work_item.run(): future.set_running_or_notify_cancel()
WorkerSetRunning(w) ==
    /\ w \in 1..Len(executor.threads)
    /\ executor.threads[w].at = "got"
    /\ executor.threads[w].item # WakeUp
    /\ fs' = [fs EXCEPT ![executor.threads[w].item + 1].state = "RUNNING"]
    /\ executor' = [executor EXCEPT !.threads[w].at = "run"]
    /\ UNCHANGED <<pc, err, errAt, _text, _length, _spans, gradient_vars,
                   self_start_index, self_color_start, self_color_end, self_style,
                   end_style, initial_spans, finished, result>>

\* work_item.run(): result = self._calculate_span(index); future.set_result(result)
WorkerRun(w) ==
    /\ w \in 1..Len(executor.threads)
    /\ executor.threads[w].at = "run"
    /\ LET item == executor.threads[w].item
       IN  /\ fs' = [fs EXCEPT ![item + 1] =
                         [state |-> "FINISHED", result |-> _calculate_span(item)]]
           /\ finished' = Append(finished, item)
    /\ executor' = [executor EXCEPT !.threads[w].at = "release"]
    /\ UNCHANGED <<pc, err, errAt, _text, _length, _spans, gradient_vars,
                   self_start_index, self_color_start, self_color_end, self_style,
                   end_style, initial_spans, result>>

\* executor._idle_semaphore.release(), then back to work_queue.get
WorkerRelease(w) ==
    /\ w \in 1..Len(executor.threads)
    /\ executor.threads[w].at = "release"
    /\ executor' = [executor EXCEPT !.threads[w] = [at |-> "get", item |-> WakeUp],
                                    !.idle_semaphore = @ + 1]
    /\ UNCHANGED <<pc, err, errAt, _text, _length, _spans, gradient_vars,
                   self_start_index, self_color_start, self_color_end, self_style,
                   end_style, initial_spans, fs, finished, result>>

\* the worker got None and the executor is shut down: work_queue.put(None); return
WorkerExit(w) ==
    /\ w \in 1..Len(executor.threads)
    /\ executor.threads[w].at = "got"
    /\ executor.threads[w].item = WakeUp
    /\ executor.shutdown
    /\ executor' = [executor EXCEPT !.work_queue = Append(@, WakeUp),
                                    !.threads[w].at = "exited"]
    /\ UNCHANGED <<pc, err, errAt, _text, _length, _spans, gradient_vars,
                   self_start_index, self_color_start, self_color_end, self_style,
                   end_style, initial_spans, fs, finished, result>>

\* the with block is left once every index is submitted: executor.shutdown
\* sets the flag and puts None on the queue
Shutdown ==
    /\ pc = "map"
    /\ Len(fs) = _length
    /\ executor' = [executor EXCEPT !.shutdown = TRUE,
                                    !.work_queue = Append(@, WakeUp)]
    /\ pc' = "shutdown"
    /\ UNCHANGED <<err, errAt, _text, _length, _spans, gradient_vars,
                   self_start_index, self_color_start, self_color_end, self_style,
                   end_style, initial_spans, fs, finished, result>>

\* shutdown(wait=True): every worker thread is joined
joined(threads) == \A w \in 1..Len(threads) : threads[w].at = "exited"

\* the results read in the order the tasks finished
result_iterator_as_completed(futures) ==
    [k \in 1..Len(finished) |-> futures[finished[k] + 1].result]

\* list(result): the results of the futures in submission order
result_iterator(futures) == [k \in 1..Len(futures) |-> futures[k].result]

\* lines 188-190 return, line 93 extends initial_spans with the list
ReturnSpans ==
    /\ pc = "shutdown"
    /\ joined(executor.threads)
    /\ \A k \in 1..Len(fs) : fs[k].state = "FINISHED"
    /\ result' = result_iterator(fs)
    /\ initial_spans' = initial_spans \o result'
    /\ pc' = "returned"
    /\ UNCHANGED <<err, errAt, _text, _length, _spans, gradient_vars,
                   self_start_index, self_color_start, self_color_end, self_style,
                   end_style, executor, fs, finished>>

\* lines 94-95
SubstringSimplifySpans ==
    /\ pc = "returned"
    /\ _spans' = GradientSubstring_simplify_spans(initial_spans)
    /\ pc' = "constructed"
    /\ UNCHANGED <<err, errAt, _text, _length, gradient_vars, substring_vars>>

(***************************************************************************)
(* The setters of a constructed GradientSubstring, lines 107-130: each     *)
(* stores its argument and recomputes nothing.                             *)
(***************************************************************************)
\* the lists given to the spans setter
SetterSpanLists == {<<>>, <<Span(0, 1, StyleParse(<<"bold">>))>>}

\* the Color objects given to the start_color and end_color setters
SetterColors == {Color("red"), Color("blue")}

\* substring.spans = spans
SetSpans ==
    /\ pc = "constructed"
    /\ \E list \in SetterSpanLists : _spans' = list
    /\ UNCHANGED <<pc, err, errAt, _text, _length, gradient_vars, substring_vars>>

\* substring.start_color = color
SetStartColor ==
    /\ pc = "constructed"
    /\ \E color \in SetterColors : self_color_start' = color
    /\ UNCHANGED <<pc, err, errAt, _text, _length, _spans, gradient_vars,
                   self_start_index, self_color_end, self_style, end_style,
                   initial_spans, executor, fs, finished, result>>

\* substring.end_color = color
SetEndColor ==
    /\ pc = "constructed"
    /\ \E color \in SetterColors : self_color_end' = color
    /\ UNCHANGED <<pc, err, errAt, _text, _length, _spans, gradient_vars,
                   self_start_index, self_color_start, self_style, end_style,
                   initial_spans, executor, fs, finished, result>>

NextSubstring ==
    \/ GradientSubstringInit
    \/ Submit
    \/ AdjustThreadCount
    \/ StartThread
    \/ \E w \in 1..MaxWorkers : WorkerGet(w)
    \/ \E w \in 1..MaxWorkers : WorkerSetRunning(w)
    \/ \E w \in 1..MaxWorkers : WorkerRun(w)
    \/ \E w \in 1..MaxWorkers : WorkerRelease(w)
    \/ \E w \in 1..MaxWorkers : WorkerExit(w)
    \/ Shutdown
    \/ ReturnSpans
    \/ SubstringSimplifySpans
    \/ SetSpans
    \/ SetStartColor
    \/ SetEndColor

SpecSubstring == Init /\ [][NextSubstring]_vars

(***************************************************************************)
(* The setters of a constructed Gradient.                                  *)
(*   text, lines 229-243: a rich Text replaces _text, _length and _spans;  *)
(*     a str raises ValueError when it is "" and otherwise replaces _text  *)
(*     and _length; anything else changes nothing.                         *)
(*   color_sample, lines 277-283: goes through the text setter with a      *)
(*     block per character when color_sample is true, so it raises before  *)
(*     _color_sample is assigned when the text is empty.                   *)
(*   style, lines 251-257: None and "null" store Style() and then fail in  *)
(*     Style.parse; a definition is parsed and stored.                     *)
(* No setter recomputes the spans.                                         *)
(***************************************************************************)
\* a str
Str(chars) == [kind |-> "str", plain |-> chars, spans |-> <<>>]

\* a rich Text with its plain text and its spans
RichText(chars, list) == [kind |-> "Text", plain |-> chars, spans |-> list]

\* text = None
NoText == [kind |-> "None", plain |-> <<>>, spans |-> <<>>]

\* the values given to the text setter
SetterTexts ==
    { Str(<<>>), Str(<<"\r">>), Str(Repeat("b", 2)), Str(Repeat("b", 4)),
      RichText(Repeat("b", 2), <<Span(0, 1, StyleParse(<<"bold">>))>>),
      RichText(<<>>, <<>>),
      NoText }

\* the text setter: what it raises and what it leaves in _text, _length, _spans
text_setter(text) ==
    IF text.kind = "Text"
    THEN LET sanitized_text == strip_control_codes(text.plain)
         IN  [err |-> "", _text |-> sanitized_text, _length |-> Len(sanitized_text),
              _spans |-> text.spans]
    ELSE IF text.kind = "str"
         THEN IF text.plain = <<>>
              THEN [err |-> "ValueError: Text cannot be empty.",
                    _text |-> _text, _length |-> _length, _spans |-> _spans]
              ELSE LET sanitized_text == strip_control_codes(text.plain)
                   IN  [err |-> "", _text |-> sanitized_text,
                        _length |-> Len(sanitized_text), _spans |-> _spans]
         ELSE [err |-> "", _text |-> _text, _length |-> _length, _spans |-> _spans]

\* gradient.text = text, for one value
SetTextTo(text) ==
    /\ pc = "done"
    /\ \E r \in {text_setter(text)} :
           /\ _text' = r._text
           /\ _length' = r._length
           /\ _spans' = r._spans
           /\ err' = r.err
           /\ errAt' = IF r.err = "" THEN "" ELSE "text"
    /\ UNCHANGED <<pc, colors, hues, _style, _colors, substring_indexes, spans,
                   hex_colors, arg, ret, ret2, _color_sample, substring_vars>>

\* gradient.text = text
SetText == \E text \in SetterTexts : SetTextTo(text)

\* gradient.color_sample = color_sample, for one value
SetColorSampleTo(color_sample) ==
    /\ pc = "done"
    /\ \E r \in {IF color_sample THEN text_setter(Str(Repeat("#", _length)))
                 ELSE [err |-> "", _text |-> _text, _length |-> _length,
                       _spans |-> _spans]} :
           /\ _text' = r._text
           /\ _length' = r._length
           /\ err' = r.err
           /\ errAt' = IF r.err = "" THEN "" ELSE "text"
           /\ _color_sample' = IF r.err # "" THEN _color_sample
                                ELSE IF color_sample THEN "True" ELSE "False"
    /\ UNCHANGED <<pc, colors, hues, _style, _colors, substring_indexes, spans,
                   hex_colors, _spans, arg, ret, ret2, substring_vars>>

\* gradient.color_sample = color_sample
SetColorSample == \E color_sample \in BOOLEAN : SetColorSampleTo(color_sample)

\* the values given to the style setter
SetterStyles == StyleInputs \cup {None, <<"null">>}

\* the style setter: what it raises and what it leaves in _style
style_setter(style) ==
    IF style = None
    THEN [err |-> "AttributeError: 'NoneType' object has no attribute 'strip'",
          _style |-> NullStyle]
    ELSE IF style = <<"null">>
         THEN [err |-> "StyleSyntaxError", _style |-> NullStyle]
         ELSE [err |-> "", _style |-> StyleParse(style)]

\* gradient.style = style
SetStyle ==
    /\ pc = "done"
    /\ \E style \in SetterStyles :
       \E r \in {style_setter(style)} :
           /\ _style' = r._style
           /\ err' = r.err
           /\ errAt' = IF r.err = "" THEN "" ELSE "style"
    /\ UNCHANGED <<pc, colors, _text, _length, hues, _colors, substring_indexes,
                   spans, hex_colors, _spans, arg, ret, ret2, _color_sample,
                   substring_vars>>

(***************************************************************************)
(* The Gradients the setters are called on: the state Gradient.__init__    *)
(* (lines 105-156) leaves for a text, an explicit colour list, a hue count *)
(* and a style that pass every step of the construction.                   *)
(***************************************************************************)
\* longest text of a Gradient whose setters are called
MaxSetterLen == 5

SetterColorLists ==
    {<<"red", "blue">>, <<"blue", "blue">>, <<"red", "lime", "blue">>}

Constructed(text, list, h, style) ==
    LET sanitized_text == strip_control_codes(text)
        anchors        == AnchorColors(list, FALSE, 0, h)
        indexes        == substring_indexes_of(Len(sanitized_text), h)
        r              == substring_spans(indexes, anchors.parsed, h, StyleParse(style))
    IN  /\ anchors.err = ""
        /\ Assertions(Len(anchors.parsed), Len(sanitized_text)) = ""
        /\ h - 1 > 0
        /\ r.ok
        /\ pc = "done"
        /\ err = ""
        /\ errAt = ""
        /\ colors = list
        /\ _text = sanitized_text
        /\ _length = Len(sanitized_text)
        /\ hues = h
        /\ _style = StyleParse(style)
        /\ _colors = anchors.parsed
        /\ substring_indexes = indexes
        /\ spans = r.spans
        /\ hex_colors = r.hex
        /\ _spans = simplify_spans(r.spans)

InitSetters ==
    /\ \E n \in 3..MaxSetterLen, list \in SetterColorLists, h \in 2..3,
          style \in {<<"none">>, <<"bold">>} :
           Constructed(Repeat("a", n), list, h, style)
    /\ arg = <<>>
    /\ ret = <<>>
    /\ ret2 = <<>>
    /\ NoObject

\* the setters of a constructed Gradient, called in any order
NextSetters ==
    \/ SetText
    \/ SetColorSample
    \/ SetStyle

SpecSetters == InitSetters /\ [][NextSetters]_vars

(***************************************************************************)
(* Vocabulary of the properties.                                           *)
(***************************************************************************)
Abs(x) == IF x < 0 THEN 0 - x ELSE x

\* the spans of list are non-empty, start at lo, end at hi and each starts
\* where the one before it ends
Tiles(list, lo, hi) ==
    /\ Len(list) >= 1
    /\ list[1].start = lo
    /\ list[Len(list)].end = hi
    /\ \A k \in 1..Len(list) : list[k].start < list[k].end
    /\ \A k \in 1..(Len(list) - 1) : list[k].end = list[k + 1].start

Contiguous(list) ==
    \A k \in 1..(Len(list) - 1) : list[k].end = list[k + 1].start

NoAdjacentEqualStyle(list) ==
    \A k \in 1..(Len(list) - 1) : list[k].style # list[k + 1].style

RECURSIVE Flatten(_)
Flatten(chunks) ==
    IF chunks = <<>> THEN <<>> ELSE Head(chunks) \o Flatten(Tail(chunks))

\* the stored span that covers character index
SpanAt(index) ==
    _spans[CHOOSE k \in 1..Len(_spans) :
               _spans[k].start <= index /\ index < _spans[k].end]

\* the arguments break a validation rule of section 4.5
ValidationViolation ==
    \/ _length = 0
    \/ Len(_colors) < 2
    \/ Len(_colors) >= _length
    \/ (colors = None /\ hues < 2)

\* an explicit list of parseable colours, at least two and fewer than characters
ValidatedColors ==
    /\ colors # None
    /\ colors # <<>>
    /\ Len(_colors) = Len(colors)
    /\ Len(_colors) >= 2
    /\ Len(_colors) < _length

ColorCountErrors ==
    { "AssertionError: Gradient must have at least two colors.",
      "AssertionError: Gradient must have fewer colors than characters." }

(***************************************************************************)
(* C1: the spans stored by a successful construction tile [0, N): they are *)
(* non-empty, the first starts at 0, the last ends at N and each starts    *)
(* where the previous one ends.                                            *)
(***************************************************************************)
C1_SpansTileText == pc = "done" => Tiles(_spans, 0, _length)

\* a constructed Gradient in which compression merged some but not all spans
C1_Witness == pc = "done" /\ Len(_spans) > 1 /\ Len(_spans) < _length

(***************************************************************************)
(* C2: no two adjacent spans returned by simplify_spans have equal style,  *)
(* for any ordered non-empty argument and for the spans of a constructed   *)
(* Gradient.                                                               *)
(***************************************************************************)
C2_Maximality ==
    /\ pc = "simplified" => NoAdjacentEqualStyle(ret)
    /\ pc = "done" => NoAdjacentEqualStyle(_spans)

\* a call that merged some spans and returned more than one
C2_Witness == pc = "simplified" /\ Len(ret) > 1 /\ Len(ret) < Len(arg)

(***************************************************************************)
(* C3: compressing a contiguous list twice gives what compressing it once  *)
(* gives, and a list without equal adjacent styles is returned unchanged;  *)
(* for Gradient.simplify_spans and GradientSubstring.simplify_spans.       *)
(***************************************************************************)
C3_Idempotence ==
    /\ (pc = "simplified twice" /\ Contiguous(arg)) => ret2 = ret
    /\ (pc \in {"simplified", "substring simplified"} /\ NoAdjacentEqualStyle(arg))
           => ret = arg

\* a contiguous list that the first compression shortened, compressed twice
C3_Witness ==
    pc = "simplified twice" /\ Contiguous(arg) /\ Len(arg) > 2 /\ Len(ret) < Len(arg)

(***************************************************************************)
(* C4: _substring_indexes returns hues - 1 chunks whose concatenation is   *)
(* 0, 1, ..., length - 1; no chunk is larger than one before it, sizes     *)
(* differ by at most 1, and no chunk is empty when length >= hues - 1.     *)
(***************************************************************************)
C4_Partition ==
    substring_indexes # <<>> =>
        LET n == Len(substring_indexes)
        IN  /\ n = hues - 1
            /\ Flatten(substring_indexes) = [k \in 1.._length |-> k - 1]
            /\ \A i, j \in 1..n :
                   i < j => /\ Len(substring_indexes[i]) >= Len(substring_indexes[j])
                            /\ Len(substring_indexes[i]) - Len(substring_indexes[j]) <= 1
            /\ _length >= hues - 1 =>
                   \A i \in 1..n : Len(substring_indexes[i]) >= 1

\* a partition into several chunks of two different sizes
C4_Witness ==
    /\ pc = "partitioned"
    /\ Len(substring_indexes) > 2
    /\ Len(substring_indexes[1]) > Len(substring_indexes[Len(substring_indexes)])
    /\ Len(substring_indexes[Len(substring_indexes)]) >= 1

(***************************************************************************)
(* C5: in a constructed Gradient hues is the number of anchor colours and  *)
(* the text is split into one segment per adjacent pair of them.           *)
(***************************************************************************)
C5_HuesIsColorCount ==
    pc = "done" =>
        /\ hues = Len(_colors)
        /\ Len(substring_indexes) = Len(_colors) - 1

(***************************************************************************)
(* C6: arguments that break a validation rule make the construction fail   *)
(* in __init__'s own checks, before _substring_indexes is called and with  *)
(* no span computed or stored.                                             *)
(***************************************************************************)
C6_FailsInValidation ==
    (pc # "idle" /\ ValidationViolation) =>
        /\ pc = "failed"
        /\ errAt = "__init__"
        /\ substring_indexes = <<>>
        /\ spans = <<>>
        /\ _spans = <<>>

(***************************************************************************)
(* C7: a construction with empty text (and two or more anchor colours)     *)
(* fails with an error other than the errors reported for a wrong number   *)
(* of colours.                                                             *)
(***************************************************************************)
C7_EmptyTextError ==
    (pc = "failed" /\ errAt = "__init__" /\ _length = 0 /\ Len(_colors) >= 2) =>
        err \notin ColorCountErrors

(***************************************************************************)
(* C8: with non-empty text of N characters and an explicit list of M       *)
(* parseable colours, 2 <= M < N, nothing raises, whether hues is left at  *)
(* its default of 3 or set to another count of at least 2.                 *)
(***************************************************************************)
C8_TotalAfterValidation ==
    (pc # "idle" /\ ValidatedColors /\ hues >= 2) => pc # "failed"

(***************************************************************************)
(* C9: in a constructed two-colour gradient (one segment) the character at *)
(* index 0 has exactly the first colour's RGB as its foreground colour,    *)
(* and the foreground colour of the last character is within 1 of the      *)
(* second colour on every channel.                                         *)
(***************************************************************************)
C9_WithinOneUnit ==
    (pc = "done" /\ Len(_colors) = 2) =>
        /\ SpanAt(0).style.color
               = [type |-> "truecolor", number |-> 0 - 1, triplet |-> _colors[1]]
        /\ SpanAt(_length - 1).style.color.type = "truecolor"
        /\ \A ch \in 1..3 :
               Abs(_colors[2][ch] - SpanAt(_length - 1).style.color.triplet[ch]) <= 1

(***************************************************************************)
(* C10: the style of every unit span is base_style + color_style: its      *)
(* foreground colour is the interpolated colour, its other attributes are  *)
(* the base style's.                                                       *)
(***************************************************************************)
C10_BasePlusColor ==
    pc \in {"synthesized", "done"} =>
        \A k \in 1..Len(spans) :
            /\ spans[k].style = StyleAdd(_style, StyleOfColor(hex_colors[k]))
            /\ spans[k].style.color = RichColorParse(hex_colors[k])
            /\ spans[k].style.attributes = _style.attributes

(***************************************************************************)
(* C11: in a constructed Gradient the first character of every segment has *)
(* exactly the RGB of the segment's first anchor colour as its foreground  *)
(* colour, and every channel of every character lies between the channels  *)
(* of the two anchor colours of the character's segment.                   *)
(***************************************************************************)
C11_SegmentStartExact ==
    pc = "done" =>
        \A m \in 1..Len(substring_indexes) :
            /\ Len(substring_indexes[m]) >= 1
            /\ SpanAt(substring_indexes[m][1]).style.color
                   = [type |-> "truecolor", number |-> 0 - 1, triplet |-> _colors[m]]
            /\ \A k \in 1..Len(substring_indexes[m]) :
                   LET color == SpanAt(substring_indexes[m][k]).style.color
                   IN  /\ color.type = "truecolor"
                       /\ \A ch \in 1..3 :
                              /\ color.triplet[ch] >= Min(_colors[m][ch], _colors[m + 1][ch])
                              /\ color.triplet[ch] <= Max(_colors[m][ch], _colors[m + 1][ch])
                              /\ color.triplet[ch] \in 0..255

(***************************************************************************)
(* C12: whatever the interleaving of the workers, once                     *)
(* calculate_spans_concurrently has returned, its result has _length       *)
(* entries, the k-th is the span _calculate_span computes for index k      *)
(* (start = start_index + k), every submitted task has finished and the    *)
(* pool is shut down with all its worker threads ended.                    *)
(***************************************************************************)
C12_ResultInIndexOrder ==
    /\ pc = "returned" =>
           \A k \in 0..(_length - 1) :
               /\ result[k + 1] = _calculate_span(k)
               /\ result[k + 1].start = self_start_index + k
    /\ pc \in {"returned", "constructed"} =>
           /\ Len(result) = _length
           /\ \A k \in 0..(_length - 1) : result[k + 1].start = self_start_index + k
           /\ Len(fs) = _length
           /\ \A k \in 1..Len(fs) : fs[k].state = "FINISHED"
           /\ executor.shutdown
           /\ \A k \in 1..Len(executor.work_queue) : executor.work_queue[k] = WakeUp
           /\ \A w \in 1..Len(executor.threads) : executor.threads[w].at = "exited"

\* a call that returned after three workers finished their tasks out of
\* index order, the spans being different from one another
C12_Witness ==
    /\ pc = "returned"
    /\ Len(executor.threads) = MaxWorkers
    /\ Len(finished) = _length
    /\ \E k \in 1..(Len(finished) - 1) : finished[k] > finished[k + 1]
    /\ \A j, k \in 1..Len(result) : j # k => result[j].style # result[k].style

(***************************************************************************)
(* C13: for a GradientSubstring over L >= 1 characters the list handed to  *)
(* simplify_spans is in increasing, non-overlapping, contiguous order, and *)
(* the spans the constructor stored (the compressed list, as long as no    *)
(* setter has replaced it) tile [start_index, start_index + L).            *)
(***************************************************************************)
C13_SubstringSpansTile ==
    /\ (pc \in {"returned", "constructed"} /\ _length >= 1) =>
           /\ \A k \in 1..Len(initial_spans) :
                  initial_spans[k].start < initial_spans[k].end
           /\ Contiguous(initial_spans)
    /\ (pc = "constructed" /\ _length >= 1
            /\ _spans = GradientSubstring_simplify_spans(initial_spans)) =>
           Tiles(_spans, self_start_index, self_start_index + _length)

(***************************************************************************)
(* C14: a call of the text setter with a non-empty string, or of the       *)
(* color_sample setter, on a Gradient whose stored spans tile              *)
(* [0, text length) leaves spans that tile [0, current text length): no    *)
(* span reaches beyond the current text and no part of it is left          *)
(* uncovered.  With the tiling a construction establishes, this is the     *)
(* tiling in every state reached through such calls.                       *)
(***************************************************************************)
C14_SettersKeepTiling ==
    [][ ( /\ Tiles(_spans, 0, _length)
          /\ \/ \E text \in SetterTexts :
                    text.kind = "str" /\ text.plain # <<>> /\ SetTextTo(text)
             \/ \E color_sample \in BOOLEAN : SetColorSampleTo(color_sample) )
        => ( /\ \A k \in 1..Len(_spans') : _spans'[k].end <= _length'
             /\ Tiles(_spans', 0, _length') ) ]_vars

====
